---- MODULE Spec2Model ----
(***************************************************************************)
(* The multi-fragment audio player of the dashboard                       *)
(* (src/src/components/recording/audio-player.tsx) as a state machine.    *)
(*                                                                         *)
(* One state of the model is the component after a render has been        *)
(* committed and its effects have run: the React state (useState), the    *)
(* refs (useRef), the props it was last rendered with, and the <audio>    *)
(* element.  One action is one caller operation or one media event: the   *)
(* handler, the re-render it causes and the effects of that render        *)
(* (seeding effect, source-switch effect, clean-up of the listeners       *)
(* effect), in the order React runs them.                                 *)
(*                                                                         *)
(* Times and durations are whole seconds.  Indices are 0-based as in the  *)
(* code; the ledger is a sequence, so fragment i is entry i + 1.          *)
(*                                                                         *)
(* The module also holds the session cache of the user's bot defaults     *)
(* (src/src/hooks/use-user-bot-defaults.ts): its three module variables,  *)
(* the calls of prefetchUserBotDefaults and the steps of the promise      *)
(* chain of a fetch.                                                       *)
(***************************************************************************)
EXTENDS Integers, Sequences, FiniteSets, TLC

VARIABLES
    props,                 \* the props of the last render: [frags, src]
    isPlaying,             \* useState(false)
    isLoading,             \* useState(true)
    currentTime,           \* useState(0)
    duration,              \* useState(0)
    isMuted,               \* useState(false)
    errorCount,            \* useState(0)
    currentFragmentIndex,  \* useState(0)
    fragmentDurations,     \* useState<number[]>([]): the duration ledger
    wasPlayingRef,         \* useRef(false)
    pendingSeekRef,        \* useRef<number | null>(null)
    lastLoadedSrcRef,      \* useRef<string>(currentSrc)
    retryTimerRef,         \* useRef(null): TRUE while it holds a timeout not yet fired
    timers,                \* the retry timeouts scheduled and neither fired nor cleared
    mounted,               \* the component is mounted
    audio,                 \* the <audio> element
    hist,                  \* what the seeks and metadata events did (observation only)
    mLedger,               \* mapping check: a ledger
    mTime,                 \* mapping check: a virtual time
    mSeekTo,               \* mapping check: what seekTo resolved
    mSeekBar,              \* mapping check: what the scrub bar resolved
    mRecord,               \* ledger check: the last recording made into mLedger
    cached,                \* let cached: BotDefaults | null
    cachedSupported,       \* let cachedSupported: boolean | null
    inFlight,              \* let inFlight: Promise | null, the promise by its number
    chains,                \* the fetchUserBotDefaults() chains that have not finished
    fetches,               \* requests sent to the user-data endpoint so far
    dhist                  \* what the last call and the responses did (observation only)

pvars == <<props, isPlaying, isLoading, currentTime, duration, isMuted, errorCount,
           currentFragmentIndex, fragmentDurations, wasPlayingRef, pendingSeekRef,
           lastLoadedSrcRef, retryTimerRef, timers, mounted, audio, hist>>
mvars == <<mLedger, mTime, mSeekTo, mSeekBar, mRecord>>
dvars == <<cached, cachedSupported, inFlight, chains, fetches, dhist>>
vars == <<pvars, mvars, dvars>>

(***************************************************************************)
(* Bounds of the model.                                                    *)
(***************************************************************************)
MaxTime == 1      \* largest seek time a caller passes
MaxErr == 2       \* the error streak is followed up to this value
MaxFrags == 3     \* mapping check: longest ledger
MaxDur == 2       \* mapping check: largest ledger entry
MaxFetch == 4     \* requests to the user-data endpoint in one session

null == 0 - 1     \* JavaScript null (pendingSeekRef)
empty == 0 - 2    \* a hole of a JavaScript array (an index never written)
NoSrc == ""       \* the empty source string

Min(a, b) == IF a <= b THEN a ELSE b

(***************************************************************************)
(* The fragment descriptor sets the parent passes, and what the media     *)
(* engine reports as the real duration of each source.                    *)
(***************************************************************************)
Frag(s, d) == [src |-> s, duration |-> d]

PropsThree == [frags |-> <<Frag("a", 2), Frag("b", 0), Frag("c", 1)>>, src |-> NoSrc]
PropsOne == [frags |-> <<Frag("a", 2)>>, src |-> NoSrc]
PropsLegacy == [frags |-> <<>>, src |-> "s"]

PropsSet == {PropsThree, PropsOne, PropsLegacy}

\* three fragments of 30, unknown and 45 seconds, and a seek to second 50
\* the legacy prop alone, a source of 120 seconds
PropsScenario1 == [frags |-> <<>>, src |-> "a.mp3"]

PropsScenario2 ==
    [frags |-> <<Frag("x", 30), Frag("y", 0), Frag("z", 45)>>, src |-> NoSrc]
Scenario2Time == 50

\* fragments b and y have no declared duration; the others are declared as
\* they are
RealDuration(s) ==
    IF s \in {"b", "c"} THEN 1
    ELSE IF s = "x" THEN 30
    ELSE IF s = "y" THEN 40
    ELSE IF s = "z" THEN 45
    ELSE IF s = "a.mp3" THEN 120
    ELSE 2

(***************************************************************************)
(* Values derived in every render.                                         *)
(***************************************************************************)
isMultiFragmentOf(p) == Len(p.frags) > 1

effectiveFragmentsOf(p) ==
    IF Len(p.frags) > 0 THEN p.frags
    ELSE IF p.src # NoSrc THEN <<Frag(p.src, 0)>>
    ELSE <<>>

\* currentFragment?.src || src || ""
currentSrcOf(p, idx) ==
    LET eff == effectiveFragmentsOf(p)
    IN IF idx + 1 \in DOMAIN eff THEN eff[idx + 1].src ELSE p.src

isMultiFragment == isMultiFragmentOf(props)
effectiveFragments == effectiveFragmentsOf(props)
currentSrc == currentSrcOf(props, currentFragmentIndex)

\* Array.prototype.reduce((sum, d) => sum + d, 0): holes are skipped
RECURSIVE SumSeq(_)
SumSeq(s) ==
    IF s = <<>> THEN 0
    ELSE (IF Head(s) = empty THEN 0 ELSE Head(s)) + SumSeq(Tail(s))

\* Array.prototype.slice(0, n)
SliceTo(s, n) == SubSeq(s, 1, Min(n, Len(s)))

virtualOffsetBug ==
    IF Len(props.frags) > 1
    THEN SumSeq(SubSeq(fragmentDurations, 1,
                       Min(currentFragmentIndex + 1, Len(fragmentDurations))))
    ELSE 0

totalDuration ==
    IF isMultiFragment THEN SumSeq(fragmentDurations) ELSE duration

virtualOffset ==
    IF isMultiFragment
    THEN SumSeq(SliceTo(fragmentDurations, currentFragmentIndex))
    ELSE 0

virtualCurrentTime == virtualOffset + currentTime

\* setFragmentDurations(prev => { updated = [...prev]; updated[index] = dur })
updateFragmentDurationBug(prev, index, dur) ==
    IF index < Len(prev)
    THEN [prev EXCEPT ![index + 1] = (IF @ = empty THEN 0 ELSE @) + dur]
    ELSE prev \o [k \in 1..(index - Len(prev)) |-> empty] \o <<dur>>
updateFragmentDuration(prev, index, dur) ==
    IF index < Len(prev)
    THEN [prev EXCEPT ![index + 1] = dur]
    ELSE prev \o [k \in 1..(index - Len(prev)) |-> empty] \o <<dur>>

\* effectiveFragments.map(f => f.duration || 0)
seedDurations(p) ==
    [k \in DOMAIN effectiveFragmentsOf(p) |-> effectiveFragmentsOf(p)[k].duration]

\* fragmentMarkers, lines 305-314: reduce pushes the running position after
\* every entry but the last; reduce passes over the holes of an array
markerPushedBug(ledger, i) == TRUE
markerPushed(ledger, i) == i < Len(ledger) - 1

RECURSIVE markersWalk(_, _, _)
markersWalk(ledger, i, acc) ==
    IF i >= Len(ledger) THEN acc
    ELSE IF ledger[i + 1] # empty /\ markerPushed(ledger, i)
    THEN markersWalk(ledger, i + 1,
                     Append(acc, (IF Len(acc) > 0 THEN acc[Len(acc)] ELSE 0)
                                 + ledger[i + 1]))
    ELSE markersWalk(ledger, i + 1, acc)

fragmentMarkers ==
    IF isMultiFragment /\ totalDuration > 0
    THEN markersWalk(fragmentDurations, 0, <<>>)
    ELSE <<>>

(***************************************************************************)
(* The <audio> element.  state: "loading" (a load is in progress, no      *)
(* metadata yet), "meta" (metadata known), "canplay" (enough data to      *)
(* play), "error" (the load or the stream failed).  evPlaying / evPause:  *)
(* a playing / pause event is due.                                         *)
(***************************************************************************)
AudioInit(s) ==
    [src |-> s, state |-> "loading", time |-> 0, dur |-> 0, paused |-> TRUE,
     muted |-> FALSE, evPlaying |-> FALSE, evPause |-> FALSE]

hasMetadata(a) == a.state \in {"meta", "canplay"}

\* audio.src = s; audio.load() (and the src attribute React writes): the media
\* element load algorithm drops the events still due, pauses and rewinds.
load(a, s) ==
    [a EXCEPT !.src = s, !.state = "loading", !.time = 0, !.dur = 0,
              !.paused = TRUE, !.evPlaying = FALSE, !.evPause = FALSE]

\* audio.currentTime = t: a seek, clamped to the duration once it is known;
\* before that the element keeps t as its start position.
setCurrentTimeOf(a, t) ==
    [a EXCEPT !.time = IF hasMetadata(a) THEN Min(t, a.dur) ELSE t]

\* audio.play(): allowed (ok) or rejected by the environment.
canStart(a) == a.src # NoSrc /\ a.state # "error"
play(a, ok) ==
    IF ok /\ a.paused THEN [a EXCEPT !.paused = FALSE, !.evPlaying = TRUE] ELSE a

\* audio.pause()
pause(a) ==
    IF a.paused THEN a ELSE [a EXCEPT !.paused = TRUE, !.evPlaying = FALSE, !.evPause = TRUE]

(***************************************************************************)
(* The virtual-to-local mapping: the loop of seekTo and the loop of the   *)
(* scrub bar, each as the code writes it.  The result is the call         *)
(* seekToFragment(index, remaining), or found = FALSE when the loop ends  *)
(* without a call (an empty ledger).                                       *)
(***************************************************************************)
NoCall == [found |-> FALSE, index |-> 0, remaining |-> 0]
Call(i, r) == [found |-> TRUE, index |-> i, remaining |-> r]
Unset == [found |-> FALSE, index |-> null, remaining |-> 0]   \* not resolved yet

seekToSelectsBug(remaining, ledger, i) ==
    remaining < ledger[i + 1] \/ i = Len(ledger) - 1
seekToSelectsAbsorbs(remaining, ledger, i) ==
    remaining <= ledger[i + 1] \/ ledger[i + 1] = 0 \/ i = Len(ledger) - 1
seekToSelects(remaining, ledger, i) ==
    remaining <= ledger[i + 1] \/ i = Len(ledger) - 1

\* remaining -= fragmentDurations[i], line 146
seekToRestBug(remaining, d) == remaining
seekToRest(remaining, d) == remaining - d

RECURSIVE seekToWalk(_, _, _)
seekToWalk(ledger, i, remaining) ==
    IF i >= Len(ledger) THEN NoCall
    ELSE IF seekToSelects(remaining, ledger, i) THEN Call(i, remaining)
    ELSE seekToWalk(ledger, i + 1, seekToRest(remaining, ledger[i + 1]))

seekToMap(ledger, time) == seekToWalk(ledger, 0, time)

seekBarSelectsBug(remaining, ledger, i) ==
    remaining <= ledger[i + 1]
seekBarSelects(remaining, ledger, i) ==
    remaining <= ledger[i + 1] \/ i = Len(ledger) - 1

RECURSIVE seekBarWalk(_, _, _)
seekBarWalk(ledger, i, remaining) ==
    IF i >= Len(ledger) THEN NoCall
    ELSE IF seekBarSelects(remaining, ledger, i) THEN Call(i, remaining)
    ELSE seekBarWalk(ledger, i + 1, remaining - ledger[i + 1])

seekBarMap(ledger, time) == seekBarWalk(ledger, 0, time)

(***************************************************************************)
(* Observation record (not program state).                                 *)
(*   loadIdx  currentFragmentIndex of the render that requested the load  *)
(*            now in the element                                           *)
(*   seekT    offset of the most recently issued seek, while a fragment   *)
(*            switch requested by a seek awaits its metadata; else null   *)
(*   phase    "pending": a cross-fragment seek to offset crossT was       *)
(*            issued and no metadata-ready event came since; "applied":   *)
(*            one came; "none": no such seek, or another fragment switch  *)
(*            (props, auto-advance) was requested after it                 *)
(*   scen     a seek to fragment 0 was issued while a seek to fragment 2  *)
(*            was pending, and its metadata has not arrived yet            *)
(*   ap       in the state right after a metadata-ready event: the        *)
(*            pending offset the handler wrote to the element (t, null if *)
(*            none) and the record as it was before the event; NoAp in    *)
(*            every other state; play: the handler called play(); err:     *)
(*            errorCount before the event                                  *)
(*   retry    the load now in the element was started by the retry timer   *)
(*   ev       in the state right after one of these steps, which one       *)
(*            (kind): "seekSingle" a seek in single-fragment mode (play:   *)
(*            the handler called play(); paused: the element was paused),  *)
(*            "endedStop" an ended event that did not advance, "replaced"  *)
(*            a failure while a retry timer was pending, "recovered" a     *)
(*            canplay event of a load the retry timer started, "unmount"   *)
(*            (paused: a retry timer was pending), "fragmentChange" the    *)
(*            source-switch effect called onFragmentChange(v); NoEv in     *)
(*            every other state; "outOfRange" seekToFragment was called    *)
(*            with the index v, negative or past the last fragment;        *)
(*            "timeUpdate" onTimeUpdate was called with the value v        *)
(*   meta     a metadata-ready event arrived since the mount               *)
(*   switched in the state right after a step that changed the fragment    *)
(*            index or the source while a retry timer was pending          *)
(* phase "advance": handleEnded moved on from fragment `from` and neither  *)
(* a metadata-ready event nor a seek came since.                           *)
(***************************************************************************)
NoAp == [on |-> FALSE, t |-> null, seekT |-> null, crossT |-> null,
         phase |-> "none", scen |-> FALSE, loadIdx |-> 0, idx |-> 0,
         play |-> FALSE, err |-> 0]

NoEv == [kind |-> "none", play |-> FALSE, paused |-> FALSE, v |-> null]

Ev(kind, playCalled, wasPaused) ==
    [kind |-> kind, play |-> playCalled, paused |-> wasPaused, v |-> null]

\* onFragmentChange(index) was called
EvFragmentChange(index) ==
    [kind |-> "fragmentChange", play |-> FALSE, paused |-> FALSE, v |-> index]

HistInit ==
    [loadIdx |-> 0, seekT |-> null, phase |-> "none", crossT |-> null,
     scen |-> FALSE, retry |-> FALSE, from |-> null, meta |-> FALSE,
     switched |-> FALSE, ap |-> NoAp, ev |-> NoEv]

\* any step but a metadata-ready event
Quiet(h) == [h EXCEPT !.switched = FALSE, !.ap = NoAp, !.ev = NoEv]

\* a fragment switch that no seek asked for (props change, auto-advance)
HistOtherSwitch(h) ==
    [h EXCEPT !.seekT = null, !.phase = "none", !.crossT = null, !.scen = FALSE,
              !.from = null, !.switched = FALSE, !.ap = NoAp, !.ev = NoEv]

\* handleEnded moved to the next fragment
HistAdvance(h) ==
    [HistOtherSwitch(h) EXCEPT !.phase = "advance", !.from = currentFragmentIndex]

(***************************************************************************)
(* Init: the component after mount.  The first render has                 *)
(* currentFragmentIndex 0; the seeding effect fills the ledger; the       *)
(* source-switch effect skips (lastLoadedSrcRef is the first source); the *)
(* element loads the source given in JSX.                                  *)
(***************************************************************************)
PlayerStart(p) ==
    /\ props = p
    /\ isPlaying = FALSE
    /\ isLoading = TRUE
    /\ currentTime = 0
    /\ duration = 0
    /\ isMuted = FALSE
    /\ errorCount = 0
    /\ currentFragmentIndex = 0
    /\ fragmentDurations = seedDurations(props)
    /\ wasPlayingRef = FALSE
    /\ pendingSeekRef = null
    /\ lastLoadedSrcRef = currentSrcOf(props, 0)
    /\ retryTimerRef = FALSE
    /\ timers = 0
    /\ mounted = TRUE
    /\ audio = AudioInit(currentSrcOf(props, 0))
    /\ hist = HistInit

PlayerInit == \E p \in PropsSet : PlayerStart(p)

\* no call of prefetchUserBotDefaults made yet.  kind: what the last call
\* returned ("null", "cached" with the value v, "promise" with the number
\* id); issued: the call sent a request; sup, had, busy: cachedSupported,
\* cached and inFlight # null when the call was made
NoPrefetch ==
    [kind |-> "none", v |-> "null", id |-> null, issued |-> FALSE,
     sup |-> "null", had |-> "null", busy |-> FALSE]

\* the module variables when the module is loaded, lines 13-15.  dhist.saw404:
\* the endpoint has answered 404; dhist.first: the first value of cached
\* that was not null
DefaultsIdle ==
    /\ cached = "null"
    /\ cachedSupported = "null"
    /\ inFlight = null
    /\ chains = {}
    /\ fetches = 0
    /\ dhist = [last |-> NoPrefetch, saw404 |-> FALSE, first |-> "null"]

\* no recording made yet
NoRecord == [index |-> null, dur |-> null, again |-> FALSE, first |-> <<>>]

MapIdle ==
    /\ mRecord = NoRecord
    /\ mLedger = <<>>
    /\ mTime = 0
    /\ mSeekTo = Unset
    /\ mSeekBar = Unset

Init == PlayerInit /\ MapIdle /\ DefaultsIdle

(***************************************************************************)
(* What the render after a handler does, and the effects of that render.  *)
(* p, idx, ct: the props, index and currentTime of the new render; il, a  *)
(* and h: isLoading, the element and the record as the handler left them; *)
(* ledgerSet: setFragmentDurations was called (a new array).              *)
(***************************************************************************)

\* the source-switch effect reloads: its dependencies [index, currentSrc]
\* changed, there is a source, and it is not the one loaded last
switchesSource(p, idx) ==
    /\ idx # currentFragmentIndex \/ currentSrcOf(p, idx) # currentSrc
    /\ currentSrcOf(p, idx) # NoSrc
    /\ lastLoadedSrcRef # currentSrcOf(p, idx)

\* pendingSeekRef.current = currentTime
pendingSeekOnSwitchBug(pending, ct) == IF pending # null THEN pending ELSE ct
pendingSeekOnSwitch(pending, ct) == ct

\* the listeners effect is torn down and set up again when one of
\* [isMultiFragment, index, effectiveFragments.length, fragmentDurations]
\* changed; its clean-up clears the retry timer
listenersRenewedBug(p, idx, ledgerSet) ==
    \/ isMultiFragmentOf(p) # isMultiFragment
    \/ Len(effectiveFragmentsOf(p)) # Len(effectiveFragments)
    \/ ledgerSet
listenersRenewed(p, idx, ledgerSet) ==
    \/ isMultiFragmentOf(p) # isMultiFragment
    \/ idx # currentFragmentIndex
    \/ Len(effectiveFragmentsOf(p)) # Len(effectiveFragments)
    \/ ledgerSet

\* clearTimeout(retryTimerRef.current) when the ref holds a timer
clearRetryTimer(ref, n) == IF ref THEN n - 1 ELSE n

\* the clean-up of the listeners effect, lines 245-249
timersOnCleanupBug(ref, n) == n
timersOnCleanup(ref, n) == clearRetryTimer(ref, n)

\* handleError, lines 228-233: clear the timer the ref holds, schedule one
timersOnErrorBug(ref, n) == n + 1
timersOnError(ref, n) == clearRetryTimer(ref, n) + 1

\* the component stays mounted; the mapping check is not involved
StaysMounted ==
    /\ mounted
    /\ UNCHANGED <<mounted, mvars, dvars>>

Commit(p, idx, ct, il, a, h, ledgerSet) ==
    LET s == currentSrcOf(p, idx)
        jsx == s # currentSrc              \* React writes the new src attribute
        a1 == IF jsx THEN load(a, s) ELSE a
        sw == switchesSource(p, idx)
        h1 == [h EXCEPT !.switched =
                          (idx # currentFragmentIndex \/ jsx) /\ timers > 0]
    IN /\ props' = p
       /\ currentFragmentIndex' = idx
       /\ currentTime' = ct
       /\ lastLoadedSrcRef' = IF sw THEN s ELSE lastLoadedSrcRef
       /\ pendingSeekRef' = IF sw THEN pendingSeekOnSwitch(pendingSeekRef, ct)
                            ELSE pendingSeekRef
       /\ isLoading' = IF sw THEN TRUE ELSE il
       /\ audio' = IF sw THEN load(a1, s) ELSE a1
       /\ retryTimerRef' = IF listenersRenewed(p, idx, ledgerSet) THEN FALSE
                           ELSE retryTimerRef
       /\ timers' = IF listenersRenewed(p, idx, ledgerSet)
                    THEN timersOnCleanup(retryTimerRef, timers)
                    ELSE timers
       /\ hist' = IF sw THEN [h1 EXCEPT !.loadIdx = idx, !.retry = FALSE,
                                        !.ev = EvFragmentChange(idx)]
                  ELSE IF jsx THEN [h1 EXCEPT !.loadIdx = idx, !.retry = FALSE]
                  ELSE h1

(***************************************************************************)
(* seekToFragment(fragmentIndex, timeInFragment), lines 105-124.  The     *)
(* play() of the same-fragment branch is allowed or rejected.             *)
(***************************************************************************)
\* a call that returns at once
Still ==
    /\ hist' = Quiet(hist)
    /\ UNCHANGED <<props, isPlaying, isLoading, currentTime, duration, isMuted,
                   errorCount, currentFragmentIndex, fragmentDurations, wasPlayingRef,
                   pendingSeekRef, lastLoadedSrcRef, retryTimerRef, timers, audio>>

inRangeNoUpper(fragmentIndex) == ~(fragmentIndex < 0)
inRange(fragmentIndex) ==
    ~(fragmentIndex < 0 \/ fragmentIndex >= Len(effectiveFragments))

\* the record after a seek that takes the same-fragment branch
HistSameSeek(t) ==
    [hist EXCEPT !.seekT = IF @ # null THEN t ELSE @, !.scen = FALSE,
                 !.phase = IF @ = "advance" THEN "none" ELSE @, !.from = null,
                 !.switched = FALSE, !.ap = NoAp, !.ev = NoEv]

\* the record after a seek that takes the other-fragment branch
HistCrossSeek(fi, t) ==
    [hist EXCEPT !.seekT = t, !.phase = "pending", !.crossT = t,
                 !.scen = (fi = 0 /\ hist.phase = "pending" /\ currentFragmentIndex = 2),
                 !.from = null, !.switched = FALSE, !.ap = NoAp, !.ev = NoEv]

\* wasPlayingRef.current = true, line 119
wasPlayingOnCrossSeekBug == isPlaying
wasPlayingOnCrossSeek == TRUE

\* what the environment may answer to a play() now: ok or rejected
PlayOutcomes == {ok \in BOOLEAN : ok => canStart(audio)}

seekToFragment(fragmentIndex, timeInFragment) ==
    IF ~inRange(fragmentIndex)
    THEN Still
    ELSE IF fragmentIndex = currentFragmentIndex
    THEN /\ currentTime' = timeInFragment
         /\ audio' \in {play(setCurrentTimeOf(audio, timeInFragment), ok) :
                            ok \in PlayOutcomes}
         /\ hist' = HistSameSeek(timeInFragment)
         /\ UNCHANGED <<props, isPlaying, isLoading, duration, isMuted, errorCount,
                        currentFragmentIndex, fragmentDurations, wasPlayingRef,
                        pendingSeekRef, lastLoadedSrcRef, retryTimerRef, timers>>
    ELSE /\ wasPlayingRef' = wasPlayingOnCrossSeek
         /\ Commit(props, fragmentIndex, timeInFragment, isLoading, audio,
                   HistCrossSeek(fragmentIndex, timeInFragment), FALSE)
         /\ UNCHANGED <<isPlaying, duration, isMuted, errorCount, fragmentDurations>>

\* a seek in single-fragment mode, lines 130-138 and 282-288
seekSingle(time, resume) ==
    /\ currentTime' = time
    /\ audio' \in IF resume
                  THEN {play(setCurrentTimeOf(audio, time), ok) : ok \in PlayOutcomes}
                  ELSE {setCurrentTimeOf(audio, time)}
    /\ hist' = [HistSameSeek(time) EXCEPT
                   !.ev = Ev("seekSingle", resume /\ audio.paused, audio.paused)]
    /\ UNCHANGED <<props, isPlaying, isLoading, duration, isMuted, errorCount,
                   currentFragmentIndex, fragmentDurations, wasPlayingRef,
                   pendingSeekRef, lastLoadedSrcRef, retryTimerRef, timers>>

\* the caller passes an index that is negative or not smaller than the
\* number of fragments
SeekToFragmentOutOfRange ==
    /\ \E fi \in (0 - 1)..MaxFrags, t \in 0..MaxTime :
          /\ fi < 0 \/ fi >= Len(effectiveFragments)
          /\ IF ~inRange(fi)
             THEN /\ hist' = [Quiet(hist) EXCEPT
                                !.ev = [Ev("outOfRange", FALSE, FALSE) EXCEPT !.v = fi]]
                  /\ UNCHANGED <<props, isPlaying, isLoading, currentTime, duration,
                                 isMuted, errorCount, currentFragmentIndex,
                                 fragmentDurations, wasPlayingRef, pendingSeekRef,
                                 lastLoadedSrcRef, retryTimerRef, timers, audio>>
             ELSE seekToFragment(fi, t)
    /\ StaysMounted

SeekToFragment ==
    /\ \E fi \in 0..(MaxFrags - 1), t \in 0..MaxTime :
          seekToFragment(fi, t)
    /\ StaysMounted

\* seekTo(time), lines 129-149
seekTo(time) ==
    IF ~isMultiFragment
    THEN seekSingle(time, TRUE)
    ELSE LET r == seekToMap(fragmentDurations, time)
         IN IF r.found THEN seekToFragment(r.index, r.remaining)
            ELSE Still

SeekTo ==
    /\ \E time \in 0..MaxTime : seekTo(time)
    /\ StaysMounted

\* the range input offers 0 .. displayDuration
HandleSeekBarChange ==
    /\ \E time \in 0..MaxTime :
          /\ time <= totalDuration
          /\ IF ~isMultiFragment
             THEN seekSingle(time, FALSE)
             ELSE LET r == seekBarMap(fragmentDurations, time)
                  IN IF r.found THEN seekToFragment(r.index, r.remaining)
                     ELSE Still
    /\ StaysMounted

\* the "Preparing audio..." hint, lines 402-406
preparingHint == isLoading /\ errorCount > 0

(***************************************************************************)
(* togglePlay (lines 261-271; the button is disabled while loading and    *)
(* not playing, line 332) and toggleMute (lines 273-278).                 *)
(***************************************************************************)
\* disabled={isLoading && !isPlaying}, line 332
playButtonDisabledBug == FALSE
playButtonDisabled == isLoading /\ ~isPlaying

\* a click on the play button: nothing when the button is disabled
TogglePlay ==
    /\ IF playButtonDisabled
       THEN UNCHANGED <<audio, errorCount>>
       ELSE IF isPlaying
       THEN /\ audio' = pause(audio)
            /\ UNCHANGED errorCount
       ELSE \E ok \in PlayOutcomes :
               /\ ~ok => errorCount < MaxErr
               /\ audio' = play(audio, ok)
               /\ errorCount' = IF ok THEN errorCount ELSE errorCount + 1
    /\ UNCHANGED <<props, isPlaying, isLoading, currentTime, duration, isMuted,
                   currentFragmentIndex, fragmentDurations, wasPlayingRef,
                   pendingSeekRef, lastLoadedSrcRef, retryTimerRef, timers>>
    /\ hist' = Quiet(hist)
    /\ StaysMounted

\* setIsMuted(!isMuted), line 277
isMutedOnToggleBug(m) == m
isMutedOnToggle(m) == ~m

ToggleMute ==
    /\ audio' = [audio EXCEPT !.muted = ~audio.muted]
    /\ isMuted' = isMutedOnToggle(isMuted)
    /\ UNCHANGED <<props, isPlaying, isLoading, currentTime, duration, errorCount,
                   currentFragmentIndex, fragmentDurations, wasPlayingRef,
                   pendingSeekRef, lastLoadedSrcRef, retryTimerRef, timers>>
    /\ hist' = Quiet(hist)
    /\ StaysMounted

(***************************************************************************)
(* Media events (the listeners of lines 177-234).                          *)
(***************************************************************************)

\* the element's position once the metadata is in and handleLoadedMetadata
\* has run: the pending offset if one is queued, else the start position
timeAfterMetadata(a, pending, dur) ==
    IF pending # null THEN Min(pending, dur) ELSE Min(a.time, dur)

\* pendingSeekRef after handleLoadedMetadata
pendingAfterMetadata(pending) == null

HistMetadata ==
    [hist EXCEPT
        !.seekT = null,
        !.phase = IF @ = "pending" THEN "applied"
                  ELSE IF @ = "advance" THEN "none" ELSE @,
        !.crossT = null,
        !.scen = FALSE,
        !.from = null,
        !.meta = TRUE,
        !.switched = FALSE,
        !.ap = [on |-> TRUE, t |-> pendingSeekRef, seekT |-> hist.seekT,
                crossT |-> hist.crossT, phase |-> hist.phase, scen |-> hist.scen,
                loadIdx |-> hist.loadIdx, idx |-> currentFragmentIndex,
                play |-> wasPlayingRef, err |-> errorCount],
        !.ev = NoEv]

\* loadedmetadata, lines 189-205
HandleLoadedMetadata ==
    /\ audio.state = "loading"
    /\ audio.src # NoSrc
    /\ LET dur == RealDuration(audio.src)
           a1 == [audio EXCEPT !.state = "meta", !.dur = dur,
                               !.time = timeAfterMetadata(audio, pendingSeekRef, dur)]
       IN /\ duration' = dur
          /\ fragmentDurations' =
                updateFragmentDuration(fragmentDurations, currentFragmentIndex, dur)
          /\ isLoading' = FALSE
          /\ pendingSeekRef' = pendingAfterMetadata(pendingSeekRef)
          /\ audio' \in IF wasPlayingRef THEN {play(a1, ok) : ok \in BOOLEAN} ELSE {a1}
          /\ wasPlayingRef' = FALSE
    /\ retryTimerRef' = FALSE       \* the ledger is a new array: listeners renewed
    /\ timers' = timersOnCleanup(retryTimerRef, timers)
    /\ hist' = HistMetadata
    /\ UNCHANGED <<props, isPlaying, currentTime, isMuted, errorCount,
                   currentFragmentIndex, lastLoadedSrcRef>>
    /\ StaysMounted

\* canplay, lines 207-210: setErrorCount(0)
errorCountOnCanPlayBug(count) == count
errorCountOnCanPlay(count) == 0

HandleCanPlay ==
    /\ audio.state = "meta"
    /\ audio' = [audio EXCEPT !.state = "canplay"]
    /\ isLoading' = FALSE
    /\ errorCount' = errorCountOnCanPlay(errorCount)
    /\ UNCHANGED <<props, isPlaying, currentTime, duration, isMuted,
                   currentFragmentIndex, fragmentDurations, wasPlayingRef,
                   pendingSeekRef, lastLoadedSrcRef, retryTimerRef, timers>>
    /\ hist' = [Quiet(hist) EXCEPT
                   !.retry = FALSE,
                   !.ev = IF hist.retry THEN Ev("recovered", FALSE, FALSE) ELSE NoEv]
    /\ StaysMounted

\* waiting, line 211: playback stalls for data; canplay and playing follow
HandleWaiting ==
    /\ audio.state = "canplay"
    /\ ~audio.paused
    /\ audio' = [audio EXCEPT !.state = "meta", !.evPlaying = TRUE]
    /\ isLoading' = TRUE
    /\ UNCHANGED <<props, isPlaying, currentTime, duration, isMuted, errorCount,
                   currentFragmentIndex, fragmentDurations, wasPlayingRef,
                   pendingSeekRef, lastLoadedSrcRef, retryTimerRef, timers>>
    /\ hist' = Quiet(hist)
    /\ StaysMounted

\* playing, line 212
HandlePlaying ==
    /\ audio.evPlaying
    /\ audio.state = "canplay"
    /\ ~audio.paused
    /\ audio' = [audio EXCEPT !.evPlaying = FALSE]
    /\ isLoading' = FALSE
    /\ isPlaying' = TRUE
    /\ UNCHANGED <<props, currentTime, duration, isMuted, errorCount,
                   currentFragmentIndex, fragmentDurations, wasPlayingRef,
                   pendingSeekRef, lastLoadedSrcRef, retryTimerRef, timers>>
    /\ hist' = Quiet(hist)
    /\ StaysMounted

\* pause, line 213
HandlePause ==
    /\ audio.evPause
    /\ audio' = [audio EXCEPT !.evPause = FALSE]
    /\ isPlaying' = FALSE
    /\ UNCHANGED <<props, isLoading, currentTime, duration, isMuted, errorCount,
                   currentFragmentIndex, fragmentDurations, wasPlayingRef,
                   pendingSeekRef, lastLoadedSrcRef, retryTimerRef, timers>>
    /\ hist' = Quiet(hist)
    /\ StaysMounted

\* onTimeUpdate was called with the value v
EvTimeUpdate(v) ==
    [kind |-> "timeUpdate", play |-> FALSE, paused |-> FALSE, v |-> v]

\* the value handleTimeUpdate passes to onTimeUpdate, lines 181-186
onTimeUpdateArgBug(time) ==
    IF isMultiFragment
    THEN SumSeq(SliceTo(fragmentDurations, currentFragmentIndex + 1)) + time
    ELSE time
onTimeUpdateArg(time) ==
    IF isMultiFragment
    THEN SumSeq(SliceTo(fragmentDurations, currentFragmentIndex)) + time
    ELSE time

\* timeupdate, lines 177-187: playback advanced by a second, or the element
\* reports the position a seek left it at
HandleTimeUpdate ==
    /\ \/ /\ audio.state = "canplay"
          /\ ~audio.paused
          /\ audio.time < audio.dur
          /\ audio' = [audio EXCEPT !.time = @ + 1]
       \/ /\ hasMetadata(audio)
          /\ currentTime # audio.time
          /\ audio' = audio
    /\ currentTime' = audio'.time
    /\ UNCHANGED <<props, isPlaying, isLoading, duration, isMuted, errorCount,
                   currentFragmentIndex, fragmentDurations, wasPlayingRef,
                   pendingSeekRef, lastLoadedSrcRef, retryTimerRef, timers>>
    /\ hist' = [Quiet(hist) EXCEPT !.ev = EvTimeUpdate(onTimeUpdateArg(audio'.time))]
    /\ StaysMounted

\* the end of the fragment: the element pauses itself and fires timeupdate,
\* pause and ended in one task; handleEnded is lines 214-223
advancesOnEndedBug == isMultiFragment
advancesOnEndedOffByOne == currentFragmentIndex < Len(effectiveFragments)
advancesOnEnded ==
    isMultiFragment /\ currentFragmentIndex < Len(effectiveFragments) - 1

\* wasPlayingRef.current = true, line 217
wasPlayingOnEndedBug == wasPlayingRef
wasPlayingOnEnded == TRUE

HandleEnded ==
    /\ audio.state = "canplay"
    /\ ~audio.paused
    /\ audio.time = audio.dur
    /\ isPlaying' = FALSE
    /\ LET a == [audio EXCEPT !.paused = TRUE, !.evPlaying = FALSE]
       IN IF advancesOnEnded
          THEN /\ wasPlayingRef' = wasPlayingOnEnded
               /\ Commit(props, currentFragmentIndex + 1, 0, isLoading, a,
                         HistAdvance(hist), FALSE)
          ELSE /\ audio' = a
               /\ currentTime' = audio.time
               /\ hist' = [Quiet(hist) EXCEPT !.ev = Ev("endedStop", FALSE, FALSE)]
               /\ UNCHANGED <<props, isLoading, currentFragmentIndex, wasPlayingRef,
                              pendingSeekRef, lastLoadedSrcRef, retryTimerRef, timers>>
    /\ UNCHANGED <<duration, isMuted, errorCount, fragmentDurations>>
    /\ StaysMounted

\* setErrorCount(count => count + 1), line 227
errorCountOnErrorBug(count) == count + 2
errorCountOnError(count) == count + 1

\* error, lines 224-234: the load or the stream failed
HandleError ==
    /\ errorCount < MaxErr
    /\ audio' = [audio EXCEPT !.state = "error", !.evPlaying = FALSE]
    /\ isPlaying' = FALSE
    /\ isLoading' = TRUE
    /\ errorCount' = errorCountOnError(errorCount)
    /\ retryTimerRef' = TRUE
    /\ timers' = timersOnError(retryTimerRef, timers)
    /\ UNCHANGED <<props, currentTime, duration, isMuted, currentFragmentIndex,
                   fragmentDurations, wasPlayingRef, pendingSeekRef,
                   lastLoadedSrcRef>>
    /\ hist' = [Quiet(hist) EXCEPT
                   !.retry = FALSE,
                   !.ev = IF retryTimerRef THEN Ev("replaced", FALSE, FALSE) ELSE NoEv]
    /\ StaysMounted

\* the retry timeout fires: audio.load(), lines 231-233
RetryFires ==
    /\ timers > 0
    /\ timers' = timers - 1
    /\ retryTimerRef' = FALSE
    /\ audio' = load(audio, audio.src)
    /\ UNCHANGED <<props, isPlaying, isLoading, currentTime, duration, isMuted,
                   errorCount, currentFragmentIndex, fragmentDurations,
                   wasPlayingRef, pendingSeekRef, lastLoadedSrcRef>>
    /\ hist' = [Quiet(hist) EXCEPT !.loadIdx = currentFragmentIndex, !.retry = TRUE]
    /\ UNCHANGED <<mounted, mvars, dvars>>

(***************************************************************************)
(* The parent renders the player with other props, or with a new array    *)
(* of the same fragments (a new identity): the seeding effect of lines    *)
(* 98-102 depends on [fragments, src] and runs in both cases.             *)
(***************************************************************************)
reseeds(p) ==
    /\ p # props \/ Len(p.frags) > 0
    /\ Len(effectiveFragmentsOf(p)) > 0

Rerender(p) ==
    /\ fragmentDurations' = IF reseeds(p) THEN seedDurations(p) ELSE fragmentDurations
    /\ Commit(p, currentFragmentIndex, currentTime, isLoading, audio,
              IF p # props THEN HistOtherSwitch(hist) ELSE Quiet(hist), reseeds(p))
    /\ UNCHANGED <<isPlaying, duration, isMuted, errorCount, wasPlayingRef>>

ChangeProps ==
    /\ \E p \in PropsSet : p # props /\ Rerender(p)
    /\ StaysMounted

ResupplyFragments ==
    /\ Len(props.frags) > 0
    /\ Rerender(props)
    /\ StaysMounted

(***************************************************************************)
(* The component unmounts: the clean-up of the listeners effect runs      *)
(* (lines 245-258); the component's state and its element are discarded   *)
(* (the model keeps them at the values of a fresh mount).                  *)
(***************************************************************************)
Unmount ==
    /\ mounted
    /\ mounted' = FALSE
    /\ timers' = timersOnCleanup(retryTimerRef, timers)
    /\ retryTimerRef' = FALSE
    /\ isPlaying' = FALSE
    /\ isLoading' = TRUE
    /\ currentTime' = 0
    /\ duration' = 0
    /\ isMuted' = FALSE
    /\ errorCount' = 0
    /\ currentFragmentIndex' = 0
    /\ fragmentDurations' = seedDurations(props)
    /\ wasPlayingRef' = FALSE
    /\ pendingSeekRef' = null
    /\ lastLoadedSrcRef' = currentSrcOf(props, 0)
    /\ audio' = AudioInit(currentSrcOf(props, 0))
    /\ hist' = [HistInit EXCEPT !.ev = Ev("unmount", FALSE, retryTimerRef)]
    /\ UNCHANGED <<props, mvars, dvars>>

Next ==
    \/ SeekToFragment
    \/ SeekTo
    \/ HandleSeekBarChange
    \/ TogglePlay
    \/ ToggleMute
    \/ HandleLoadedMetadata
    \/ HandleCanPlay
    \/ HandleWaiting
    \/ HandlePlaying
    \/ HandlePause
    \/ HandleTimeUpdate
    \/ HandleEnded
    \/ HandleError
    \/ RetryFires
    \/ ChangeProps
    \/ ResupplyFragments
    \/ Unmount

Spec == Init /\ [][Next]_vars

TypeOK ==
    /\ props \in PropsSet
    /\ currentFragmentIndex \in 0..(MaxFrags - 1)
    /\ currentTime \in Nat
    /\ pendingSeekRef \in {null} \cup Nat
    /\ errorCount \in 0..MaxErr
    /\ timers \in Nat
    /\ mounted \in BOOLEAN

(***************************************************************************)
(* The mapping on its own: every ledger of up to MaxFrags entries of up   *)
(* to MaxDur seconds, every virtual time up to one second past the        *)
(* longest timeline, resolved by seekTo and by the scrub bar.             *)
(***************************************************************************)
Ledgers == UNION {[1..n -> 0..MaxDur] : n \in 1..MaxFrags}
VirtualTimes == 0..(MaxFrags * MaxDur + 1)

MapInit ==
    /\ PlayerInit
    /\ mLedger \in Ledgers \cup {seedDurations(PropsScenario2)}
    /\ mTime \in VirtualTimes \cup {Scenario2Time}
    /\ mSeekTo = Unset
    /\ mSeekBar = Unset
    /\ mRecord = NoRecord
    /\ DefaultsIdle

MapSeekTo ==
    /\ mSeekTo = Unset
    /\ mSeekTo' = seekToMap(mLedger, mTime)
    /\ UNCHANGED <<pvars, dvars, mLedger, mTime, mSeekBar, mRecord>>

MapSeekBar ==
    /\ mSeekBar = Unset
    /\ mSeekBar' = seekBarMap(mLedger, mTime)
    /\ UNCHANGED <<pvars, dvars, mLedger, mTime, mSeekTo, mRecord>>

MapNext == MapSeekTo \/ MapSeekBar

MapSpec == MapInit /\ [][MapNext]_vars

(***************************************************************************)
(* The ledger on its own: every ledger of up to MaxFrags entries, and     *)
(* recordings of every duration up to MaxDur at every index.  mRecord      *)
(* keeps the index and duration of the last recording; again: the one     *)
(* before it had the same index and duration, and left the ledger `first`. *)
(***************************************************************************)
LedgerInit ==
    /\ PlayerInit
    /\ mLedger \in Ledgers
    /\ mTime = 0
    /\ mSeekTo = Unset
    /\ mSeekBar = Unset
    /\ mRecord = NoRecord
    /\ DefaultsIdle

LedgerRecord ==
    /\ \E index \in 0..(MaxFrags - 1), dur \in 0..MaxDur :
          /\ mLedger' = updateFragmentDuration(mLedger, index, dur)
          /\ mRecord' = [index |-> index, dur |-> dur,
                         again |-> (mRecord.index = index /\ mRecord.dur = dur),
                         first |-> mLedger]
    /\ UNCHANGED <<pvars, dvars, mTime, mSeekTo, mSeekBar>>

LedgerNext == LedgerRecord

LedgerSpec == LedgerInit /\ [][LedgerNext]_vars

(***************************************************************************)
(* The range guard of seekToFragment: seeks with indices in and out of    *)
(* range, loads that succeed, playback to the end of a fragment and       *)
(* changes of the fragment set.                                            *)
(***************************************************************************)
GuardNext ==
    \/ SeekToFragmentOutOfRange
    \/ SeekToFragment
    \/ HandleLoadedMetadata
    \/ HandleCanPlay
    \/ HandlePlaying
    \/ HandleTimeUpdate
    \/ HandleEnded
    \/ ChangeProps

GuardSpec == Init /\ [][GuardNext]_vars

(***************************************************************************)
(* Scenario 1 on the player: mounted with the legacy prop alone; the      *)
(* caller plays, pauses and seeks, the media engine reports events and    *)
(* failures; the props never change.                                       *)
(***************************************************************************)
Scenario1Init == PlayerStart(PropsScenario1) /\ MapIdle /\ DefaultsIdle

Scenario1Next ==
    \/ SeekToFragment
    \/ SeekTo
    \/ HandleSeekBarChange
    \/ TogglePlay
    \/ HandleLoadedMetadata
    \/ HandleCanPlay
    \/ HandleWaiting
    \/ HandlePlaying
    \/ HandlePause
    \/ HandleTimeUpdate
    \/ HandleEnded
    \/ HandleError
    \/ RetryFires

Scenario1Spec == Scenario1Init /\ [][Scenario1Next]_vars

(***************************************************************************)
(* Scenario 2 on the player: mounted with the three fragments of          *)
(* PropsScenario2, the caller seeks once to second 50 while fragment 1's  *)
(* duration is unknown, and from then on only media events and the retry  *)
(* timer act.                                                              *)
(***************************************************************************)
Scenario2Init == PlayerStart(PropsScenario2) /\ MapIdle /\ DefaultsIdle

Scenario2SeekTo ==
    /\ hist.phase = "none"
    /\ currentFragmentIndex = 0
    /\ hist.loadIdx = 0
    /\ seekTo(Scenario2Time)
    /\ StaysMounted

Scenario2Next ==
    \/ Scenario2SeekTo
    \/ HandleLoadedMetadata
    \/ HandleCanPlay
    \/ HandleWaiting
    \/ HandlePlaying
    \/ HandleTimeUpdate
    \/ HandleEnded
    \/ HandleError
    \/ RetryFires

Scenario2Spec == Scenario2Init /\ [][Scenario2Next]_vars

(***************************************************************************)
(* The session cache of the user's bot defaults,                           *)
(* src/src/hooks/use-user-bot-defaults.ts.  A chain is one call of         *)
(* fetchUserBotDefaults() with the .then and .finally attached to it      *)
(* (lines 39-46); its stage is                                             *)
(*   "requested"  the request is outstanding (await fetch, line 18)        *)
(*   "json"       the endpoint answered, not 404; res.json() is awaited    *)
(*   "resolved"   fetchUserBotDefaults() resolved with the value v         *)
(*   "rejected"   the request failed: fetchUserBotDefaults() rejected      *)
(*   "thenDone"   the .then callback has written cached                    *)
(* and the .finally callback ends the chain.  Values: "null", "server"    *)
(* (defaults the endpoint returned), "local" (getLocalBotDefaults()).     *)
(* Calls may come between any two steps of a chain.                        *)
(***************************************************************************)
\* if (cachedSupported === false) return null, line 36
unsupportedBug == FALSE
unsupported == cachedSupported = "false"

\* if (!inFlight), line 38
startsFetchBug == TRUE
startsFetch == inFlight = null

\* the record of a call
Prefetch(kind, v, id, issued) ==
    [kind |-> kind, v |-> v, id |-> id, issued |-> issued,
     sup |-> cachedSupported, had |-> cached, busy |-> (inFlight # null)]

\* prefetchUserBotDefaults(), lines 35-49
PrefetchUserBotDefaults ==
    /\ IF unsupported
       THEN /\ dhist' = [dhist EXCEPT !.last = Prefetch("null", "null", null, FALSE)]
            /\ UNCHANGED <<inFlight, chains, fetches>>
       ELSE IF cached # "null"
       THEN /\ dhist' = [dhist EXCEPT !.last = Prefetch("cached", cached, null, FALSE)]
            /\ UNCHANGED <<inFlight, chains, fetches>>
       ELSE IF startsFetch
       THEN /\ fetches < MaxFetch
            /\ fetches' = fetches + 1
            /\ inFlight' = fetches + 1
            /\ chains' = chains \cup
                            {[id |-> fetches + 1, stage |-> "requested", v |-> "null"]}
            /\ dhist' = [dhist EXCEPT
                           !.last = Prefetch("promise", "null", fetches + 1, TRUE)]
       ELSE /\ dhist' = [dhist EXCEPT
                           !.last = Prefetch("promise", "null", inFlight, FALSE)]
            /\ UNCHANGED <<inFlight, chains, fetches>>
    /\ UNCHANGED <<cached, cachedSupported, pvars, mvars>>

\* the chain c moves to the stage st with the value v
chainsAfter(c, st, v) ==
    (chains \ {c}) \cup {[id |-> c.id, stage |-> st, v |-> v]}

\* the step of a chain leaves the record of the last call
AfterCall == [dhist EXCEPT !.last = NoPrefetch]

\* res.status === 404, lines 19-22
Respond404 ==
    /\ \E c \in chains :
          /\ c.stage = "requested"
          /\ chains' = chainsAfter(c, "resolved", "null")
    /\ cachedSupported' = "false"
    /\ dhist' = [AfterCall EXCEPT !.saw404 = TRUE]
    /\ UNCHANGED <<cached, inFlight, fetches, pvars, mvars>>

\* any other status, line 23
RespondOther ==
    /\ \E c \in chains :
          /\ c.stage = "requested"
          /\ chains' = chainsAfter(c, "json", "null")
    /\ cachedSupported' = "true"
    /\ dhist' = AfterCall
    /\ UNCHANGED <<cached, inFlight, fetches, pvars, mvars>>

\* fetch() rejects: the request failed
RequestFails ==
    /\ \E c \in chains :
          /\ c.stage = "requested"
          /\ chains' = chainsAfter(c, "rejected", "null")
    /\ dhist' = AfterCall
    /\ UNCHANGED <<cached, cachedSupported, inFlight, fetches, pvars, mvars>>

\* lines 24-32: the body is read; the server's defaults when it has values,
\* else what getLocalBotDefaults() returns (defaults or null)
JsonRead ==
    /\ \E c \in chains, v \in {"server", "local", "null"} :
          /\ c.stage = "json"
          /\ chains' = chainsAfter(c, "resolved", v)
    /\ dhist' = AfterCall
    /\ UNCHANGED <<cached, cachedSupported, inFlight, fetches, pvars, mvars>>

\* .then((v) => { cached = v; return v; }), lines 40-43
ThenRuns ==
    /\ \E c \in chains :
          /\ c.stage = "resolved"
          /\ chains' = chainsAfter(c, "thenDone", c.v)
          /\ cached' = c.v
          /\ dhist' = [AfterCall EXCEPT
                         !.first = IF @ = "null" THEN c.v ELSE @]
    /\ UNCHANGED <<cachedSupported, inFlight, fetches, pvars, mvars>>

\* .finally(() => { inFlight = null; }), lines 44-46
FinallyRuns ==
    /\ \E c \in chains :
          /\ c.stage \in {"thenDone", "rejected"}
          /\ chains' = chains \ {c}
    /\ inFlight' = null
    /\ dhist' = AfterCall
    /\ UNCHANGED <<cached, cachedSupported, fetches, pvars, mvars>>

DefaultsInit == PlayerStart(PropsScenario1) /\ MapIdle /\ DefaultsIdle

DefaultsNext ==
    \/ PrefetchUserBotDefaults
    \/ Respond404
    \/ RespondOther
    \/ RequestFails
    \/ JsonRead
    \/ ThenRuns
    \/ FinallyRuns

DefaultsSpec == DefaultsInit /\ [][DefaultsNext]_vars

(***************************************************************************)
(* Properties.                                                             *)
(***************************************************************************)

\* offsetOf(i): the sum of the ledger entries before index i
offsetOf(ledger, i) == SumSeq(SliceTo(ledger, i))

\* C1: in every reachable state the total virtual duration the player shows
\* equals the sum of the entries of the duration ledger.
C1_TotalIsLedgerSum == totalDuration = SumSeq(fragmentDurations)

\* C2: in every reachable state virtualCurrentTime equals the sum of the
\* ledger entries before the current index plus the physical time of the
\* playback cursor.
C2_VirtualTimeIsOffsetPlusTime ==
    virtualCurrentTime = offsetOf(fragmentDurations, currentFragmentIndex) + currentTime

\* C3: when a seek to fragment 0 is issued while a seek to fragment 2 awaits
\* its metadata, the state reflects the second seek only: index 0, fragment
\* 0's source loaded, its offset pending, and at the metadata-ready event
\* its offset (not the first seek's) is what is written to the element.
C3_LastSeekWins ==
    /\ hist.scen =>
          /\ currentFragmentIndex = 0
          /\ audio.src = effectiveFragments[1].src
          /\ lastLoadedSrcRef = effectiveFragments[1].src
          /\ pendingSeekRef = hist.crossT
          /\ currentTime = hist.crossT
    /\ (hist.ap.on /\ hist.ap.scen) =>
          /\ currentFragmentIndex = 0
          /\ audio.src = effectiveFragments[1].src
          /\ hist.ap.t = hist.ap.crossT
          /\ audio.time = Min(hist.ap.crossT, audio.dur)
          /\ pendingSeekRef = null

C3_Witness == hist.ap.on /\ hist.ap.scen /\ hist.ap.t = 1

\* C4: a seek issued while a fragment switch awaits its metadata replaces the
\* pending target: the offset written to the element at the metadata-ready
\* event is the offset of the most recently issued seek.
C4_NewSeekReplacesPending ==
    (hist.ap.on /\ hist.ap.seekT # null) => hist.ap.t = hist.ap.seekT

\* C5: a metadata-ready event of a load that was requested under another
\* index than the current one does not write the pending offset to the
\* element.
C5_StaleLoadNotApplied ==
    (hist.ap.on /\ hist.ap.loadIdx # hist.ap.idx) => hist.ap.t = null

\* C6: after a cross-fragment seek to offset t the first metadata-ready event
\* writes t to the element and empties the pending slot; a later
\* metadata-ready event writes nothing.
C6_PendingAppliedOnce ==
    /\ (hist.ap.on /\ hist.ap.phase = "pending") =>
          /\ hist.ap.t = hist.ap.crossT
          /\ audio.time = Min(hist.ap.crossT, audio.dur)
          /\ pendingSeekRef = null
    /\ (hist.ap.on /\ hist.ap.phase = "applied") => hist.ap.t = null

\* entry i of the ledger holds a duration the media engine reported (it is
\* not the declared value any more)
observed(i) ==
    /\ i \in DOMAIN fragmentDurations
    /\ i \in DOMAIN effectiveFragments
    /\ fragmentDurations[i] # empty
    /\ fragmentDurations[i] # effectiveFragments[i].duration

\* C7: while the fragment descriptor set stays the same, no step resets an
\* observed ledger entry or reduces it below the observed value.
C7_ObservedNeverRetracted ==
    [][props' = props =>
          \A i \in DOMAIN fragmentDurations :
             observed(i) =>
                /\ i \in DOMAIN fragmentDurations'
                /\ fragmentDurations'[i] >= fragmentDurations[i]]_vars

\* C8: a change of the fragment descriptor set resets the ledger to the new
\* set's declared durations and the cursor to fragment 0, time 0.
C8_ChangeResetsLedgerAndCursor ==
    [][props' # props =>
          /\ fragmentDurations' = seedDurations(props')
          /\ currentFragmentIndex' = 0
          /\ currentTime' = 0]_vars

\* the boundaries of the ledger: the indices i, not the last, whose
\* cumulative end is the virtual time t
Boundaries(ledger, t) ==
    {i \in 0..(Len(ledger) - 2) : offsetOf(ledger, i + 1) = t}

\* C9 (as stated): a seek to the boundary after fragment i resolves to
\* fragment i with local offset duration[i], by seekTo and by the scrub bar.
C9_BoundaryResolvesToThatFragment ==
    (mSeekTo # Unset /\ mSeekBar # Unset) =>
       \A i \in Boundaries(mLedger, mTime) :
          /\ mSeekTo = Call(i, mLedger[i + 1])
          /\ mSeekBar = Call(i, mLedger[i + 1])

EarliestBoundary(ledger, t) ==
    CHOOSE j \in Boundaries(ledger, t) : \A k \in Boundaries(ledger, t) : j <= k

\* C9 (as amended): a seek to the boundary after fragment i resolves to the
\* earliest fragment j <= i whose cumulative end is that boundary (j = i
\* when duration[i] > 0), with local offset duration[j]; seekTo and the
\* scrub bar resolve every virtual time to the same pair.
C9_BoundaryResolvesToEarliest ==
    (mSeekTo # Unset /\ mSeekBar # Unset) =>
       /\ mSeekTo = mSeekBar
       /\ \A i \in Boundaries(mLedger, mTime) :
             /\ mSeekTo = Call(EarliestBoundary(mLedger, mTime),
                               mLedger[EarliestBoundary(mLedger, mTime) + 1])
             /\ mLedger[i + 1] > 0 => mSeekTo = Call(i, mLedger[i + 1])

C9_Witness ==
    /\ mSeekTo.found
    /\ mSeekBar.found
    /\ \E i \in Boundaries(mLedger, mTime) : mLedger[i + 1] > 0 /\ mSeekTo.index = i
    /\ \E i \in Boundaries(mLedger, mTime) : mLedger[i + 1] = 0

\* the fragments whose cumulative range reaches the virtual time t
Containing(ledger, t) ==
    {i \in 0..(Len(ledger) - 1) : t <= offsetOf(ledger, i + 1)}

Expected(ledger, t) ==
    LET i == IF Containing(ledger, t) = {} THEN Len(ledger) - 1
             ELSE CHOOSE j \in Containing(ledger, t) :
                     \A k \in Containing(ledger, t) : j <= k
    IN Call(i, t - offsetOf(ledger, i))

\* C10: the mapping returns the first fragment whose cumulative range
\* contains t, with local offset t minus the durations before it; when t
\* exceeds the sum of all entries it returns the last fragment with the
\* full remainder.
C10_FirstContainingOrLast ==
    /\ mSeekTo # Unset => mSeekTo = Expected(mLedger, mTime)
    /\ mSeekBar # Unset => mSeekBar = Expected(mLedger, mTime)

C10_Witness ==
    /\ mSeekTo.found
    /\ mSeekBar.found
    /\ Len(mLedger) > 1
    /\ mTime > SumSeq(mLedger)
    /\ mSeekBar.index = Len(mLedger) - 1
    /\ mSeekBar.remaining > mLedger[Len(mLedger)]

\* C11 (as stated): with the ledger [30, unknown, 45] a seek to virtual time 50
\* resolves to fragment 1 with local offset 20.
C11_UnknownFragmentAbsorbs ==
    (mLedger = seedDurations(PropsScenario2) /\ mTime = Scenario2Time /\ mSeekTo # Unset)
       => mSeekTo = Call(1, 20)

\* C11 (as amended): with the ledger [30, unknown, 45] a seek to virtual time
\* 50 resolves to fragment 2, the first fragment whose cumulative range
\* (30, 30, 75) contains 50, with local offset 20; the fragment of unknown
\* duration is passed over as a fragment of length 0.
C11_UnknownFragmentPassedOver ==
    (mLedger = seedDurations(PropsScenario2) /\ mTime = Scenario2Time /\ mSeekTo # Unset)
       => mSeekTo = Call(2, 20)

C11_Witness ==
    /\ mLedger = <<30, 0, 45>>
    /\ mTime = 50
    /\ mSeekTo.found
    /\ mSeekTo.index = 2

\* the state right after the metadata-ready event that follows the seek of
\* Scenario 2
scenario2Loaded == hist.ap.on /\ hist.ap.phase = "pending"

\* C12 (as stated): after the seek of Scenario 2 the metadata-ready event that
\* follows records fragment 1's real duration (40) and virtualCurrentTime is
\* recomputed to 70, with no caller action after the seek.
C12_RecomputedTo70 ==
    scenario2Loaded =>
       /\ fragmentDurations[2] = 40
       /\ virtualCurrentTime = 70

\* C12 (as amended): after the seek of Scenario 2 the metadata-ready event
\* that follows is the one of fragment 2, the fragment the seek resolved to:
\* it records 45 at index 2 and leaves fragment 1's entry unknown, and
\* virtualCurrentTime, recomputed from the ledger, is still 50 = 30 + 0 + 20,
\* with no caller action after the seek.
C12_StaysAt50 ==
    scenario2Loaded =>
       /\ currentFragmentIndex = 2
       /\ fragmentDurations = <<30, 0, 45>>
       /\ virtualCurrentTime = 50
       /\ audio.time = 20

C12_Witness ==
    /\ scenario2Loaded
    /\ audio.src = "z"
    /\ currentTime = 20
    /\ virtualCurrentTime = 50

\* C13: when ended fires for fragment i while a later fragment exists, the
\* index becomes i + 1, the physical time 0, the source of fragment i + 1 is
\* loaded with offset 0 pending, and at the metadata-ready event of that load
\* the element starts at 0 and play is invoked, with no caller action.
C13_AutoAdvance ==
    /\ hist.phase = "advance" =>
          /\ currentFragmentIndex = hist.from + 1
          /\ currentTime = 0
          /\ audio.src = currentSrc
          /\ lastLoadedSrcRef = currentSrc
          /\ ~hasMetadata(audio)
          /\ audio.time = 0
          /\ pendingSeekRef = 0
          /\ wasPlayingRef
          /\ isLoading
    /\ (hist.ap.on /\ hist.ap.phase = "advance") =>
          /\ currentFragmentIndex = hist.ap.idx
          /\ audio.src = currentSrc
          /\ hist.ap.t = 0
          /\ audio.time = 0
          /\ hist.ap.play
          /\ ~wasPlayingRef

C13_Witness ==
    /\ hist.ap.on
    /\ hist.ap.phase = "advance"
    /\ currentFragmentIndex = 2
    /\ audio.src = "c"
    /\ ~audio.paused

noLaterFragment ==
    ~isMultiFragment \/ currentFragmentIndex >= Len(effectiveFragments) - 1

\* C14: when ended fires and no later fragment exists (the last fragment of a
\* multi-fragment set, or single-fragment mode), the index stays, the element
\* keeps its source and is not reloaded, and isPlaying is false.
C14_EndedAtLastStops ==
    [][(HandleEnded /\ noLaterFragment) =>
          /\ currentFragmentIndex' = currentFragmentIndex
          /\ audio'.src = audio.src
          /\ audio'.state = audio.state
          /\ lastLoadedSrcRef' = lastLoadedSrcRef
          /\ pendingSeekRef' = pendingSeekRef
          /\ isLoading' = isLoading
          /\ isPlaying' = FALSE]_vars

C14_Witness ==
    /\ hist.ev.kind = "endedStop"
    /\ isMultiFragment
    /\ currentFragmentIndex = Len(effectiveFragments) - 1
    /\ audio.state = "canplay"
    /\ ~isPlaying

\* C15: at most one retry timer is pending at any time; a failure while one
\* is pending replaces it; once the reload of a failure has fired no timer
\* is left, so a failure never causes two reloads.
C15_OneRetryPerFailure ==
    /\ timers <= 1
    /\ retryTimerRef <=> timers = 1
    /\ hist.ev.kind = "replaced" => timers = 1
    /\ hist.retry => timers = 0

C15_Witness ==
    /\ hist.ev.kind = "replaced"
    /\ errorCount = 2
    /\ timers = 1

\* C16: in every state where the stream has failed and the component is
\* mounted, the controller is loading and a reload is pending.
C16_FailureKeepsReloadPending ==
    (mounted /\ audio.state = "error") => (isLoading /\ timers > 0)

\* C17: when the load started by the retry timer reaches the playable state,
\* the error streak is 0 and the "Preparing audio..." hint is not shown.
C17_RecoveryResetsStreak ==
    hist.ev.kind = "recovered" =>
       /\ errorCount = 0
       /\ ~preparingHint
       /\ ~isLoading

C17_Witness ==
    /\ hist.ev.kind = "recovered"
    /\ audio.state = "canplay"
    /\ errorCount = 0

\* C18: no retry timer is pending after unmount, and none is pending while
\* the element holds a successfully loaded source, so no retry reload fires
\* after a successful load or after teardown.
C18_NoRetryAfterLoadOrUnmount ==
    /\ ~mounted => (timers = 0 /\ ~retryTimerRef)
    /\ hasMetadata(audio) => (timers = 0 /\ ~retryTimerRef)

C18_Witness ==
    /\ ~mounted
    /\ hist.ev.kind = "unmount"
    /\ hist.ev.paused
    /\ timers = 0

\* C19: a seek in single-fragment mode (the target is the loaded fragment)
\* that finds the element paused invokes play.
C19_SameFragmentSeekResumes ==
    (hist.ev.kind = "seekSingle" /\ hist.ev.paused) => hist.ev.play

\* C20: from a seek to another fragment until the metadata-ready event, the
\* offset of the seek is pending, the target's source is loading and the
\* controller is loading; the metadata-ready event writes that offset to the
\* element and invokes play.
C20_CrossSeekDefersToMetadata ==
    /\ hist.phase = "pending" =>
          /\ pendingSeekRef = hist.crossT
          /\ audio.src = currentSrc
          /\ ~hasMetadata(audio)
          /\ isLoading
    /\ (hist.ap.on /\ hist.ap.phase = "pending") =>
          /\ hist.ap.t = hist.ap.crossT
          /\ audio.time = Min(hist.ap.crossT, audio.dur)
          /\ hist.ap.play

\* the ledger entries (1-based) of the fragments whose source the element holds
loadedEntries ==
    {i \in DOMAIN effectiveFragments : effectiveFragments[i].src = audio.src}

\* C21: a metadata-ready event writes the reported duration into the ledger
\* entry of the fragment whose source the element loaded, and changes no
\* other entry (nor the length of the ledger).
C21_MetadataRecordsOwnEntry ==
    [][HandleLoadedMetadata =>
          /\ DOMAIN fragmentDurations' = DOMAIN fragmentDurations
          /\ \A i \in DOMAIN fragmentDurations :
                fragmentDurations'[i] =
                   IF i \in loadedEntries THEN RealDuration(audio.src)
                   ELSE fragmentDurations[i]]_vars

\* C22: in Scenario 1 the total virtual duration is 0 until the first
\* metadata-ready event and 120 from then on; the index stays 0, the element
\* keeps the one source, no source switch is requested and onFragmentChange
\* is never called, whatever the caller and the media engine do.
C22_SingleFragmentNeverSwitches ==
    /\ totalDuration = IF hist.meta THEN 120 ELSE 0
    /\ currentFragmentIndex = 0
    /\ audio.src = "a.mp3"
    /\ lastLoadedSrcRef = "a.mp3"
    /\ hist.loadIdx = 0
    /\ hist.ev.kind # "fragmentChange"

C22_Witness ==
    /\ hist.ev.kind = "endedStop"
    /\ errorCount > 0
    /\ audio.time = 120
    /\ totalDuration = 120

\* C23: a call of seekToFragment with an index that is negative or not
\* smaller than the number of fragments changes neither the index, the
\* physical time, the pending seek slot, the was-playing flag, the ledger
\* nor the media element.
C23_OutOfRangeSeekIsNoOp ==
    [][SeekToFragmentOutOfRange =>
          UNCHANGED <<currentFragmentIndex, currentTime, pendingSeekRef,
                      wasPlayingRef, lastLoadedSrcRef, fragmentDurations, isLoading,
                      isPlaying, audio>>]_vars

C23_Witness ==
    /\ hist.ev.kind = "outOfRange"
    /\ hist.ev.v = Len(effectiveFragments)
    /\ isMultiFragment
    /\ ~audio.paused

\* C24: a toggle while the controller is loading and not playing changes
\* nothing (play is not invoked); a toggle while it is playing, loading or
\* not, invokes pause and nothing else; a toggle while it is neither
\* playing nor loading invokes play (playback starts, or the rejection is
\* counted).
C24_ToggleHonoured ==
    [][TogglePlay =>
          /\ (isLoading /\ ~isPlaying) =>
                UNCHANGED <<audio, errorCount, isPlaying, isLoading, wasPlayingRef>>
          /\ isPlaying => (audio' = pause(audio) /\ errorCount' = errorCount)
          /\ (~isLoading /\ ~isPlaying) =>
                \/ audio' = play(audio, TRUE) /\ errorCount' = errorCount
                \/ audio' = audio /\ errorCount' = errorCount + 1]_vars

C24_Witness ==
    /\ isLoading
    /\ isPlaying
    /\ audio.paused
    /\ audio.evPause

\* the metadata-ready handler called play() and the environment rejected it
autoResumeRejected == hist.ap.on /\ hist.ap.play /\ audio.paused

\* C25: a rejection of the play command issued by the auto-resume after a
\* fragment switch increments the error streak by one.
C25_RejectionCounted ==
    autoResumeRejected => errorCount = hist.ap.err + 1

\* C26 (as stated): the error streak grows only by a stream-failure event and
\* then by exactly one, and shrinks only at a canplay event, to 0; the hint
\* is shown only while loading with a streak above 0.
C26_StreakCountsStreamFailures ==
    [][mounted' =>
          /\ HandleError => errorCount' = errorCount + 1
          /\ errorCount' > errorCount => HandleError
          /\ errorCount' < errorCount => (HandleCanPlay /\ errorCount' = 0)
          /\ preparingHint' => (isLoading' /\ errorCount' > 0)]_vars

\* C26 (as amended): the error streak grows only by a stream-failure event
\* or a rejected play command of toggle-play, and then by exactly one, and
\* shrinks only at a canplay event, to 0; the hint is shown only while
\* loading with a streak above 0.
C26_StreakCountsFailuresAndRejections ==
    [][mounted' =>
          /\ HandleError => errorCount' = errorCount + 1
          /\ errorCount' > errorCount =>
                (HandleError \/ TogglePlay) /\ errorCount' = errorCount + 1
          /\ errorCount' < errorCount => (HandleCanPlay /\ errorCount' = 0)
          /\ preparingHint' => (isLoading' /\ errorCount' > 0)]_vars

C26_Witness ==
    /\ audio.state = "canplay"
    /\ audio.paused
    /\ errorCount = 2
    /\ ~preparingHint

\* C27: a mute toggle flips the muted flag of the element and of the player
\* state and leaves isPlaying, isLoading, the index, the physical time, the
\* pending seek slot, the error streak and the ledger as they were.
C27_MuteTogglesOnlyMuted ==
    [][ToggleMute =>
          /\ isMuted' = ~isMuted
          /\ audio' = [audio EXCEPT !.muted = ~audio.muted]
          /\ UNCHANGED <<isPlaying, isLoading, currentFragmentIndex, currentTime,
                         pendingSeekRef, errorCount, fragmentDurations,
                         wasPlayingRef>>]_vars

C27_Witness ==
    /\ isMuted
    /\ audio.muted
    /\ isPlaying
    /\ ~audio.paused

\* C28: the value the time-update observer receives at a time update is the
\* sum of the ledger entries before currentFragmentIndex plus the element's
\* physical time, and the plain physical time in single-fragment mode.
C28_ObserverGetsVirtualTime ==
    hist.ev.kind = "timeUpdate" =>
        hist.ev.v = (IF isMultiFragment
                     THEN offsetOf(fragmentDurations, currentFragmentIndex)
                     ELSE 0) + audio.time

C28_Witness ==
    /\ hist.ev.kind = "timeUpdate"
    /\ isMultiFragment
    /\ currentFragmentIndex > 0
    /\ audio.time > 0
    /\ hist.ev.v > audio.time

\* C29: a seek or an auto-advance that changes the fragment index calls
\* onFragmentChange once, with the new index, and the element is loading that
\* fragment; a seek that keeps the index and a retry reload do not call it.
C29_FragmentChangeNotified ==
    [][/\ ((SeekToFragment \/ SeekTo \/ HandleSeekBarChange \/ HandleEnded)
             /\ currentFragmentIndex' # currentFragmentIndex) =>
             /\ hist'.ev = EvFragmentChange(currentFragmentIndex')
             /\ audio'.src = effectiveFragments[currentFragmentIndex' + 1].src
             /\ audio'.state = "loading"
       /\ ((SeekToFragment \/ SeekTo \/ HandleSeekBarChange)
             /\ currentFragmentIndex' = currentFragmentIndex) =>
             hist'.ev.kind # "fragmentChange"
       /\ RetryFires => hist'.ev.kind # "fragmentChange"]_vars

\* C30: whenever there is a fragment to play, currentFragmentIndex names one
\* of the effective fragments and the source loaded in the media element is
\* that fragment's source.
C30_LoadedIsCurrentFragment ==
    Len(effectiveFragments) > 0 =>
        /\ currentFragmentIndex < Len(effectiveFragments)
        /\ audio.src = effectiveFragments[currentFragmentIndex + 1].src

C32_MarkersAreOffsets ==
    (isMultiFragment /\ totalDuration > 0) =>
        /\ Len(fragmentMarkers) = Len(effectiveFragments) - 1
        /\ \A k \in 1..(Len(fragmentDurations) - 1) :
              fragmentMarkers[k] = offsetOf(fragmentDurations, k)

C32_Witness ==
    /\ isMultiFragment
    /\ fragmentDurations # seedDurations(props)
    /\ fragmentMarkers = <<2, 3>>

\* C35: for every non-empty ledger and every virtual time, seekTo resolves a
\* fragment index of the ledger and an offset that is not negative, and the
\* sum of the entries before that index plus the offset is the time asked.
C35_SeekRoundTrip ==
    mSeekTo # Unset =>
        /\ mSeekTo.found
        /\ mSeekTo.index \in 0..(Len(mLedger) - 1)
        /\ mSeekTo.remaining >= 0
        /\ offsetOf(mLedger, mSeekTo.index) + mSeekTo.remaining = mTime

C35_Witness ==
    /\ mSeekTo # Unset
    /\ mSeekTo.index = 2
    /\ mSeekTo.remaining > 0
    /\ mLedger[2] = 0
    /\ mTime < SumSeq(mLedger)

\* C33: whenever the fragment set is not empty, currentFragmentIndex is the
\* index of one of its fragments.
C33_IndexInRange ==
    Len(effectiveFragments) > 0 =>
        currentFragmentIndex \in 0..(Len(effectiveFragments) - 1)

\* C34: the duration ledger has exactly one entry per effective fragment.
C34_OneEntryPerFragment ==
    Len(fragmentDurations) = Len(effectiveFragments)

C37_SwitchCancelsRetry ==
    /\ hist.switched => (timers = 0 /\ ~retryTimerRef)
    /\ timers > 0 => (timers = 1 /\ retryTimerRef /\ audio.state = "error")

C37_Witness ==
    /\ hist.switched
    /\ hist.phase = "pending"
    /\ timers = 0
    /\ errorCount > 0
    /\ audio.state = "loading"

\* C38: at most one request to the user-data endpoint is outstanding; a call
\* made while a fetch is in flight sends no request and returns the promise
\* in flight; the in-flight slot is set exactly while a chain has not
\* finished, whether its request succeeded or failed.
C38_OneFetchInFlight ==
    /\ Cardinality({c \in chains : c.stage = "requested"}) <= 1
    /\ Cardinality(chains) <= 1
    /\ (dhist.last.kind = "promise" /\ dhist.last.busy) => ~dhist.last.issued
    /\ dhist.last.kind = "promise" =>
          (dhist.last.id = inFlight /\ \E c \in chains : c.id = inFlight)
    /\ (inFlight # null) <=> (chains # {})

C38_Witness ==
    /\ dhist.last.kind = "promise"
    /\ dhist.last.busy
    /\ \E c \in chains : c.stage = "requested" /\ c.id = inFlight
    /\ fetches = 2

\* C39: once the endpoint has answered 404 the defaults stay marked
\* unsupported and every call returns null and sends no request; once cached
\* holds defaults it keeps them and every call returns them and sends no
\* request.
C39_AnswerIsFinal ==
    /\ dhist.saw404 => cachedSupported = "false"
    /\ (dhist.last.kind # "none" /\ dhist.last.sup = "false") =>
          (dhist.last.kind = "null" /\ ~dhist.last.issued)
    /\ dhist.first # "null" => cached = dhist.first
    /\ (dhist.last.kind # "none" /\ dhist.last.had # "null") =>
          /\ dhist.last.kind = "cached"
          /\ dhist.last.v = dhist.last.had
          /\ ~dhist.last.issued

C39_Witness ==
    /\ dhist.saw404
    /\ dhist.last.kind = "null"
    /\ chains = {}
    /\ fetches = 2

====
